---------------------------- MODULE Spec2Model ----------------------------
(***************************************************************************)
(* ClassicalHopfield (src/06HW/hf_network.py): a discrete Hopfield network *)
(* with Hebbian training, an energy function and synchronous/asynchronous  *)
(* recall.  One engine object and the caller that drives it.               *)
(*                                                                         *)
(* Arrays are sequences (1-based): numpy index k is position k+1.          *)
(* Matrices are sequences of rows.  Thresholds are integers.               *)
(***************************************************************************)
EXTENDS Integers, Sequences, FiniteSets, TLC

\* Bounds of the model.
MaxD == 3        \* largest d = width*height of a constructed engine
MaxTh == 1       \* threshold entries are drawn from -MaxTh..MaxTh
MaxTrain == 2    \* at most this many accumulating train calls
MaxIter == 1     \* number_of_iterations is drawn from 0..MaxIter

VARIABLES
  engine,                \* TRUE once __init__ has returned an object
  input_shape,           \* self.input_shape
  weight_shape,          \* self.weight_shape
  weights,               \* self.weights
  threshold,             \* self.threshold
  op,                    \* the last method called
  arg_shape,             \* __init__'s input_shape argument
  arg_threshold,         \* __init__'s threshold argument: <<>> is None, <<v>> is v
  states,                \* the `states` argument of the last call, as passed
  states_after,          \* the caller's array that was passed, after the call
  synchronous,           \* test's synchronous argument
  number_of_iterations,  \* test's number_of_iterations argument
  predicted_states,      \* test's return value
  result,                \* the scalar a call returned (energy is kept doubled)
  err,                   \* the exception the last call raised, or "none"
  trained                \* history: the length-d patterns train has accumulated

vars == <<engine, input_shape, weight_shape, weights, threshold, op, arg_shape,
          arg_threshold, states, states_after, synchronous, number_of_iterations,
          predicted_states, result, err, trained>>

engineFields == <<engine, input_shape, weight_shape, weights, threshold>>

----------------------------------------------------------------------------
\* numpy helpers, as the code uses them

\* Sequences over S of length n, and bipolar arrays.
Vectors(S, n) == [1..n -> S]
Bipolar(n) == Vectors({-1, 1}, n)
ThresholdValues == (0 - MaxTh)..MaxTh

RECURSIVE prod(_)
\* np.prod of a tuple
prod(t) == IF Len(t) = 0 THEN 1 ELSE Head(t) * prod(Tail(t))

RECURSIVE dotFrom(_, _, _)
\* a[k]*b[k] + ... + a[n]*b[n]
dotFrom(a, b, k) == IF k > Len(a) THEN 0 ELSE a[k] * b[k] + dotFrom(a, b, k + 1)

\* np.matmul of two 1-D arrays
dot(a, b) == dotFrom(a, b, 1)

\* np.matmul(matrix, vector)
matmul(m, v) == [i \in 1..Len(m) |-> dot(m[i], v)]

\* np.zeros((d, d)) and np.zeros(d)
zeros2(d) == [i \in 1..d |-> [j \in 1..d |-> 0]]
zeros1(d) == [i \in 1..d |-> 0]

\* np.outer(a, b)
outer(a, b) == [i \in 1..Len(a) |-> [j \in 1..Len(b) |-> a[i] * b[j]]]

\* Variant: the diagonal is left as np.outer computed it.
fill_diagonal_skipped(m, v) == m

\* np.fill_diagonal(m, v)
fill_diagonal(m, v) ==
  [i \in 1..Len(m) |-> [j \in 1..Len(m[i]) |-> IF i = j THEN v ELSE m[i][j]]]

\* Whether `self.weights += m` broadcasts: m is k x k, self.weights is d x d;
\* numpy accepts k = d, and k = 1 (the single entry is added everywhere).
broadcastable(w, m) == Len(m) = Len(w) \/ Len(m) = 1

\* Variant: `self.weights = m`, an assignment in place of the accumulation.
iadd_overwrite(w, m) ==
  [i \in 1..Len(w) |-> [j \in 1..Len(w) |->
      IF Len(m) = 1 THEN m[1][1] ELSE m[i][j]]]

\* self.weights += m, when it broadcasts
iadd(w, m) ==
  [i \in 1..Len(w) |-> [j \in 1..Len(w) |->
      w[i][j] + (IF Len(m) = 1 THEN m[1][1] ELSE m[i][j])]]

----------------------------------------------------------------------------
\* ClassicalHopfield's methods as operators

\* Variant: a threshold shorter than d is accepted.
threshold_ok_at_most(thr, shape) == thr = <<>> \/ Len(thr[1]) <= prod(shape)

\* threshold is None or threshold.shape == (np.prod(input_shape),)
threshold_ok(thr, shape) == thr = <<>> \/ Len(thr[1]) = prod(shape)

\* Variant: both of train's documented alternatives applied, the diagonal
\* cleared and the identity subtracted as well.
hebbian_update_minus_identity(s) ==
  LET m == fill_diagonal(outer(s, s), 0)
  IN  [i \in 1..Len(m) |-> [j \in 1..Len(m) |-> m[i][j] - (IF i = j THEN 1 ELSE 0)]]

\* weights = np.outer(states, states.T); np.fill_diagonal(weights, 0)
hebbian_update(s) == fill_diagonal(outer(s, s), 0)

\* train's effect on self.weights when `+=` broadcasts
train_weights(w, s) == iadd(w, hebbian_update(s))

\* train raises (the `+=` does not broadcast) and leaves self.weights as it was
train_raises(w, s) == ~broadcastable(w, hebbian_update(s))

\* Variant: `1 - 2 * (...)`, the two values swapped.
unit_update_inverted(w, th, s, index) ==
  IF dot(w[index], s) >= th[index] THEN -1 ELSE 1

\* (np.matmul(self.weights[index], predicted_states) >= self.threshold[index]) * 2 - 1
unit_update(w, th, s, index) ==
  IF dot(w[index], s) >= th[index] THEN 1 ELSE -1

\* Variant: `<=` for `>=`.
sweep_below(w, th, s) ==
  [i \in 1..Len(w) |-> IF matmul(w, s)[i] <= th[i] THEN 1 ELSE -1]

\* Variant: `>` for `>=`.
sweep_strict(w, th, s) ==
  [i \in 1..Len(w) |-> IF matmul(w, s)[i] > th[i] THEN 1 ELSE -1]

\* (np.matmul(self.weights, states) >= self.threshold) * 2 - 1
sweep(w, th, s) ==
  [i \in 1..Len(w) |-> IF matmul(w, s)[i] >= th[i] THEN 1 ELSE -1]

\* Variant: range(number_of_iterations + 1).
range_inclusive(n) == 0..n

\* range(number_of_iterations)
range(n) == 0..(n - 1)

\* np.random.randint(0, self.weight_shape[0]): one draw per loop iteration
Draws(n, d) == [range(n) -> 0..(d - 1)]

RECURSIVE async_loop(_, _, _, _, _)
\* the for loop of test: iteration k writes unit idx[k] of predicted_states
async_loop(w, th, ps, idx, k) ==
  IF k \notin DOMAIN idx THEN ps
  ELSE async_loop(w, th,
                  [ps EXCEPT ![idx[k] + 1] = unit_update(w, th, ps, idx[k] + 1)],
                  idx, k + 1)

\* Variant: `predicted_states = states`, the loop writes the caller's array.
caller_array_aliased(s, ps) == ps

\* predicted_states = states.copy(): the loop writes the copy, the caller's
\* array keeps its value
caller_array(s, ps) == s

RECURSIVE train_all(_, _)
\* self.weights after train(p) for each p of ps in turn, starting from w
train_all(w, ps) ==
  IF Len(ps) = 0 THEN w ELSE train_all(train_weights(w, Head(ps)), Tail(ps))

\* energy_function, doubled so that it stays an integer:
\* 2 * (-(W s).s / 2 + threshold.s); the order of energies is that of the code's
energy_function(w, th, s) == (0 - dot(matmul(w, s), s)) + 2 * dot(th, s)

\* int(0.14 * self.weight_shape[0])
storage_capacity_limit(d) == (14 * d) \div 100

----------------------------------------------------------------------------
\* The engine and its caller

d == weight_shape[1]

\* Shapes of one to three dimensions.  The engine reads a shape's length and
\* the product of its entries only, so shapes are drawn with their entries in
\* non-decreasing order; two-element shapes have d <= MaxD.
ShapeInputs ==
  {t \in UNION {Vectors(1..MaxD, n) : n \in 1..3} :
     /\ \A i \in 1..(Len(t) - 1) : t[i] <= t[i + 1]
     /\ Len(t) = 2 => prod(t) <= MaxD}

ThresholdInputs ==
  {<<>>} \cup {<<v>> : v \in UNION {Vectors(ThresholdValues, n) : n \in 0..(MaxD + 1)}}

\* train is also called with arrays of the wrong length
TrainInputs == UNION {Bipolar(n) : n \in 0..MaxD}

noCall == /\ synchronous' = TRUE
          /\ number_of_iterations' = 1
          /\ predicted_states' = <<>>
          /\ result' = 0

Init ==
  /\ engine = FALSE
  /\ input_shape = <<>>
  /\ weight_shape = <<>>
  /\ weights = <<>>
  /\ threshold = <<>>
  /\ op = "none"
  /\ arg_shape = <<>>
  /\ arg_threshold = <<>>
  /\ states = <<>>
  /\ states_after = <<>>
  /\ synchronous = TRUE
  /\ number_of_iterations = 1
  /\ predicted_states = <<>>
  /\ result = 0
  /\ err = "none"
  /\ trained = <<>>

\* __init__(input_shape=shape, threshold=thr); the caller constructs once
Construct(shape, thr) ==
  /\ ~engine
  /\ op = "none"
  /\ op' = "__init__"
  /\ arg_shape' = shape
  /\ arg_threshold' = thr
  /\ IF Len(shape) = 2 /\ threshold_ok(thr, shape)
       THEN /\ engine' = TRUE
            /\ input_shape' = shape
            /\ weight_shape' = <<prod(shape), prod(shape)>>
            /\ weights' = zeros2(prod(shape))
            /\ threshold' = IF thr = <<>> THEN zeros1(prod(shape)) ELSE thr[1]
            /\ err' = "none"
       ELSE /\ UNCHANGED engineFields
            /\ err' = "AssertionError"
  /\ noCall
  /\ UNCHANGED <<states, states_after, trained>>

\* train(s)
Train(s) ==
  /\ engine
  /\ (Len(s) = d => Len(trained) < MaxTrain)
  /\ op' = "train"
  /\ states' = s
  /\ states_after' = s
  /\ IF train_raises(weights, s)
       THEN /\ err' = "ValueError"
            /\ UNCHANGED <<weights, trained>>
       ELSE /\ err' = "none"
            /\ weights' = train_weights(weights, s)
            /\ trained' = IF Len(s) = d THEN Append(trained, s) ELSE trained
  /\ noCall
  /\ UNCHANGED <<engine, input_shape, weight_shape, threshold, arg_shape, arg_threshold>>

\* test(s, synchronous=True)
TestSynchronous(s) ==
  /\ engine
  /\ op' = "test"
  /\ synchronous' = TRUE
  /\ number_of_iterations' = 1
  /\ predicted_states' = sweep(weights, threshold, s)
  /\ states' = s
  /\ states_after' = s
  /\ result' = 0
  /\ err' = "none"
  /\ UNCHANGED <<engineFields, arg_shape, arg_threshold, trained>>

\* test(s, synchronous=False, number_of_iterations=n), drawing the indices idx
TestAsynchronous(s, n, idx) ==
  /\ engine
  /\ op' = "test"
  /\ synchronous' = FALSE
  /\ number_of_iterations' = n
  /\ predicted_states' = async_loop(weights, threshold, s, idx, 0)
  /\ states' = s
  /\ states_after' = caller_array(s, predicted_states')
  /\ result' = 0
  /\ err' = "none"
  /\ UNCHANGED <<engineFields, arg_shape, arg_threshold, trained>>

\* energy_function(s)
Energy(s) ==
  /\ engine
  /\ op' = "energy_function"
  /\ states' = s
  /\ states_after' = s
  /\ result' = energy_function(weights, threshold, s)
  /\ err' = "none"
  /\ synchronous' = TRUE
  /\ number_of_iterations' = 1
  /\ predicted_states' = <<>>
  /\ UNCHANGED <<engineFields, arg_shape, arg_threshold, trained>>

\* storage_capacity_limit()
Capacity ==
  /\ engine
  /\ op' = "storage_capacity_limit"
  /\ result' = storage_capacity_limit(weight_shape[1])
  /\ err' = "none"
  /\ synchronous' = TRUE
  /\ number_of_iterations' = 1
  /\ predicted_states' = <<>>
  /\ UNCHANGED <<engineFields, arg_shape, arg_threshold, states, states_after, trained>>

Next ==
  \/ \E shape \in ShapeInputs, thr \in ThresholdInputs : Construct(shape, thr)
  \/ \E s \in TrainInputs : Train(s)
  \/ \E s \in Bipolar(Len(weights)) : TestSynchronous(s)
  \/ \E s \in Bipolar(Len(weights)), n \in 0..MaxIter :
        \E idx \in Draws(n, Len(weights)) : TestAsynchronous(s, n, idx)
  \/ \E s \in Bipolar(Len(weights)) : Energy(s)
  \/ Capacity

Spec == Init /\ [][Next]_vars

----------------------------------------------------------------------------
\* A recall run: the caller, holding a trained engine and a start state,
\* repeats states = test(states, synchronous=False, number_of_iterations=1).

TrainingRuns(n) == UNION {Vectors(Bipolar(n), k) : k \in 1..MaxTrain}

\* The states of Spec after __init__(shape, thr), train(p) for each p of ps and
\* test(s0, synchronous=False, number_of_iterations=0).
InitLive ==
  \E shape \in {t \in ShapeInputs : Len(t) = 2} :
    \E thr \in {x \in ThresholdInputs : threshold_ok(x, shape)} :
      \E ps \in TrainingRuns(prod(shape)), s0 \in Bipolar(prod(shape)) :
        /\ engine = TRUE
        /\ input_shape = shape
        /\ weight_shape = <<prod(shape), prod(shape)>>
        /\ weights = train_all(zeros2(prod(shape)), ps)
        /\ threshold = IF thr = <<>> THEN zeros1(prod(shape)) ELSE thr[1]
        /\ op = "test"
        /\ arg_shape = shape
        /\ arg_threshold = thr
        /\ states = s0
        /\ states_after = s0
        /\ synchronous = FALSE
        /\ number_of_iterations = 0
        /\ predicted_states = s0
        /\ result = 0
        /\ err = "none"
        /\ trained = ps

\* test(predicted_states, synchronous=False, number_of_iterations=1) drawing index
Iterate(index) ==
  /\ op = "test"
  /\ index < Len(weights)
  /\ TestAsynchronous(predicted_states, 1, [k \in range(1) |-> index])

NextLive == \E index \in 0..(MaxD - 1) : Iterate(index)

\* every unit whose update would change the state is eventually drawn
LiveSpec ==
  InitLive /\ [][NextLive]_vars /\ \A index \in 0..(MaxD - 1) : WF_vars(Iterate(index))

----------------------------------------------------------------------------
\* Properties

RECURSIVE CorrelationSum(_, _, _)
\* the sum over the patterns p of ps of p[i] * p[j]
CorrelationSum(ps, i, j) ==
  IF Len(ps) = 0 THEN 0 ELSE Head(ps)[i] * Head(ps)[j] + CorrelationSum(Tail(ps), i, j)

Changed(a, b) == {i \in 1..Len(a) : a[i] # b[i]}

\* C1: once constructed, and after any train calls, the weight matrix is
\* symmetric and its diagonal is zero.
WeightsSymmetricZeroDiagonal ==
  engine =>
    \A i \in 1..Len(weights) :
      /\ weights[i][i] = 0
      /\ \A j \in 1..Len(weights) : weights[i][j] = weights[j][i]

WeightsSymmetricWitness ==
  /\ engine
  /\ Len(trained) = 2
  /\ Len(weights) = 3
  /\ \E i, j \in 1..3 : weights[i][j] # 0

\* C2 as claimed: for every d >= 1, after exactly one train(p) on a fresh
\* engine, test(p, synchronous=True) returns p.
SinglePatternRecallEveryEngine ==
  (op = "test" /\ synchronous /\ Len(trained) = 1 /\ states = trained[1])
    => predicted_states = states

RecallThresholds ==
  \A i \in 1..Len(threshold) :
    0 - (Len(weights) - 1) < threshold[i] /\ threshold[i] <= Len(weights) - 1

\* C2 amended: after exactly one train(p) on a fresh engine whose thresholds
\* all lie in -(d-1) < threshold[i] <= d-1 (for the default zero threshold:
\* every d >= 2), test(p, synchronous=True) returns p.
SinglePatternRecall ==
  (op = "test" /\ synchronous /\ Len(trained) = 1 /\ states = trained[1]
     /\ RecallThresholds)
    => predicted_states = states

SinglePatternRecallWitness ==
  /\ op = "test" /\ synchronous /\ Len(trained) = 1 /\ states = trained[1]
  /\ RecallThresholds
  /\ Len(weights) = 3
  /\ \E i \in 1..3 : states[i] = -1
  /\ \E i \in 1..3 : threshold[i] # 0

\* C3: an asynchronous test never returns a state of higher energy than its
\* input; in particular no single-unit update step increases the energy.
EnergyNonIncreasingAsynchronous ==
  (op = "test" /\ ~synchronous)
    => energy_function(weights, threshold, predicted_states)
         <= energy_function(weights, threshold, states)

EnergyAsynchronousWitness ==
  /\ op = "test" /\ ~synchronous /\ number_of_iterations = 1
  /\ Len(trained) >= 1
  /\ predicted_states # states
  /\ threshold # zeros1(Len(weights))
  /\ energy_function(weights, threshold, predicted_states)
       < energy_function(weights, threshold, states)

ZeroIterationNoOp ==
  (op = "test" /\ ~synchronous /\ number_of_iterations = 0)
    => predicted_states = states

ZeroIterationWitness ==
  /\ op = "test" /\ ~synchronous /\ number_of_iterations = 0
  /\ Len(trained) >= 1
  /\ \E i \in 1..Len(weights) : unit_update(weights, threshold, states, i) # states[i]

\* C6: construction fails (the code's failed assertion is the spec's
\* ConfigurationError) and yields no engine exactly when the shape has not two
\* elements or a supplied threshold's length is not d; otherwise it yields an
\* engine with an all-zero d x d weight matrix and the threshold supplied, or
\* zeros.
ConstructionContract ==
  op = "__init__" =>
    IF Len(arg_shape) # 2
       \/ (arg_threshold # <<>> /\ Len(arg_threshold[1]) # prod(arg_shape))
      THEN err = "AssertionError" /\ ~engine
      ELSE /\ err = "none" /\ engine
           /\ input_shape = arg_shape
           /\ Len(weights) = arg_shape[1] * arg_shape[2]
           /\ \A i \in 1..Len(weights) :
                /\ Len(weights[i]) = Len(weights)
                /\ \A j \in 1..Len(weights) : weights[i][j] = 0
           /\ Len(threshold) = Len(weights)
           /\ \A i \in 1..Len(threshold) :
                threshold[i] = IF arg_threshold = <<>> THEN 0 ELSE arg_threshold[1][i]

ConstructionWitness ==
  /\ op = "__init__" /\ err = "AssertionError" /\ ~engine
  /\ Len(arg_shape) = 2
  /\ arg_threshold # <<>>
  /\ Len(arg_threshold[1]) = prod(arg_shape) + 1

\* C7: a train call with a pattern whose length is not d raises an error and
\* leaves the weight matrix as it was.
TrainRejectsWrongLength ==
  [][(op' = "train" /\ Len(states') # Len(weights))
       => (err' # "none" /\ weights' = weights)]_vars

\* C8: the weight matrix is the sum of the trained patterns' outer products
\* with a zero diagonal, and training the same patterns in any other order
\* gives the same matrix.
HebbianAccumulation ==
  engine =>
    /\ \A i, j \in 1..Len(weights) :
         weights[i][j] = IF i = j THEN 0 ELSE CorrelationSum(trained, i, j)
    /\ \A perm \in Permutations(1..Len(trained)) :
         train_all(zeros2(Len(weights)), [k \in 1..Len(trained) |-> trained[perm[k]]])
           = weights

HebbianWitness ==
  /\ engine
  /\ Len(weights) = 3
  /\ Len(trained) = 2
  /\ outer(trained[1], trained[1]) # outer(trained[2], trained[2])

\* C9: once constructed, only train changes the weight matrix, nothing changes
\* the threshold or the shape, and an asynchronous test leaves the array it
\* was given as it was.
Frame ==
  [][engine =>
       /\ (weights' # weights => op' = "train")
       /\ threshold' = threshold
       /\ input_shape' = input_shape
       /\ weight_shape' = weight_shape
       /\ ((op' = "test" /\ ~synchronous') => states_after' = states')]_vars

FrameWitness ==
  /\ op = "test" /\ ~synchronous /\ number_of_iterations = 1
  /\ Len(trained) >= 1
  /\ threshold # zeros1(Len(weights))
  /\ predicted_states # states

IsFixedPoint(s) ==
  \A i \in 1..Len(s) : unit_update(weights, threshold, s, i) = s[i]

\* C10: a run of single-unit asynchronous updates in which every unit keeps
\* being drawn reaches a state that no unit's update changes, and stays there.
AsynchronousConvergence == <>[]IsFixedPoint(predicted_states)

AsynchronousConvergenceWitness ==
  /\ op = "test" /\ number_of_iterations = 1
  /\ Len(weights) = 3
  /\ IsFixedPoint(predicted_states)
  /\ predicted_states # states
  /\ threshold # zeros1(3)

=============================================================================
